---- MODULE Spec2Model ----
(***************************************************************************)
(* Model of the SSH client of ssh-winrm-client-python (src/ssh_client.py): *)
(* the context manager (__enter__/__exit__) and the interactive sudo       *)
(* password handshake of reboot()/shutdown().                              *)
(*                                                                         *)
(* Time is counted in ticks.  time.sleep(PROMPT_POLL_INTERVAL) advances    *)
(* the clock by the interval; every other statement takes no time.  Only   *)
(* differences of time.time() are used by the code, so the clock is set to *)
(* 0 when a call starts.  The remote host is the environment: it appends   *)
(* output to the shell channel's receive buffer and sets the channel's     *)
(* status_event at any moment.  Every channel operation of the client      *)
(* (send, recv_ready, recv) may fail: the library's exception then leaves  *)
(* reboot()/shutdown(), which hold no try/except.                          *)
(***************************************************************************)
EXTENDS Integers, Sequences, FiniteSets, TLC

VARIABLES
    PROMPT_POLL_INTERVAL,   \* class attribute, ticks
    PROMPT_POLL_TIMEOUT,    \* class attribute, ticks
    WRONG_PASSWORD_TIMEOUT, \* class attribute, ticks
    BYTES_TO_READ,          \* class attribute, bytes per recv
    ctx,          \* position of the with-statement around the client
    client,       \* self.client: "none", "open" (connected), "closed"
    shell,        \* self.shell: "none", "open", "closed"
    pc,           \* position inside reboot()/shutdown()
    command,      \* the command of the running (or last) call
    clock,        \* time.time(), ticks since the call started
    t_now,        \* the local t_now of the running polling loop
    buf,          \* bytes received on the shell channel and not yet read
    status_event, \* self.shell.status_event is set
    sent,         \* the lines handed to self.shell.send in this call, in order
    raised,       \* the exception that left the call, NoException otherwise
    calls,        \* number of reboot()/shutdown() calls started
    emits,        \* number of chunks the remote host has emitted
    obs,          \* observations of the running call (history, read by the properties only)
    transport,    \* self.client.get_transport(): "none", "alive", "dead"
    setup,        \* the connect and invoke_shell calls made so far, in order (history)
    variant,      \* the source file the SSHClient class was imported from
    exec,         \* the last execute_command() of the SSH client
    winrm,        \* the WinRM client and its last operation
    outcomes,     \* what the calls so far have raised, with the reason (history)
    replay,       \* the channel behaviour of a first call, for a second one (history)
    origin        \* when the bytes the running call reads were emitted (history)

vars == <<PROMPT_POLL_INTERVAL, PROMPT_POLL_TIMEOUT, WRONG_PASSWORD_TIMEOUT,
          BYTES_TO_READ, ctx, client, shell, pc, command, clock, t_now, buf,
          status_event, sent, raised, calls, emits, obs, transport, setup,
          variant, exec, winrm, outcomes, replay, origin>>

config == <<PROMPT_POLL_INTERVAL, PROMPT_POLL_TIMEOUT, WRONG_PASSWORD_TIMEOUT,
            BYTES_TO_READ>>

session == <<ctx, client, shell, transport, setup>>

\* What execute_command() and the WinRM client work on.
commands == <<variant, exec, winrm>>

\* The history kept by a specification, not by the program.
history == <<outcomes, replay, origin>>

-----------------------------------------------------------------------------
(* Bounds of the model *)

MaxInterval == 1

MaxPromptTimeout == 2

MaxWrongTimeout == 1

SmallRead == 4

MaxEmits == 2

MaxCalls == 2

MaxLogIns == 1

MaxExitStatus == 1

MaxLines == 2

MaxStatusCode == 2

MaxStdOut == 2

MaxReplayEmits == 1

-----------------------------------------------------------------------------
(* Bytes and text.  A byte string is a sequence of one-character strings. *)

DefaultBytesToRead == 1024

Pattern == <<"p", "a", "s", "s", "w", "o", "r", "d">>

PromptLower == <<"p", "a", "s", "s", "w", "o", "r", "d">>

PromptCapital == <<"P", "a", "s", "s", "w", "o", "r", "d">>

LineEnd == <<"\n">>

\* What the remote shell may emit in one piece.
Chunks == {PromptLower, PromptCapital, LineEnd}

\* str(bytes): the repr of a bytes object, b'...' with control bytes escaped.
RECURSIVE Escape(_)
Escape(bytes) ==
    IF bytes = <<>> THEN <<>>
    ELSE (IF Head(bytes) = "\n" THEN <<"\\", "n">> ELSE <<Head(bytes)>>)
         \o Escape(Tail(bytes))

PyStr(bytes) == <<"b", "'">> \o Escape(bytes) \o <<"'">>

\* str.lower()
LowerChar(c) ==
    CASE c = "P" -> "p" [] c = "A" -> "a" [] c = "S" -> "s" [] c = "W" -> "w"
      [] c = "O" -> "o" [] c = "R" -> "r" [] c = "D" -> "d" [] c = "B" -> "b"
      [] c = "N" -> "n" [] OTHER -> c

Lower(s) == [i \in 1..Len(s) |-> LowerChar(s[i])]

\* re.match(r'.*password.*', s): anchored at the start of s, '.' matches any
\* character but a newline.
ReMatch(s) ==
    \E i \in 1..Len(s) :
        /\ i + Len(Pattern) - 1 <= Len(s)
        /\ SubSeq(s, i, i + Len(Pattern) - 1) = Pattern
        /\ \A j \in 1..(i - 1) : s[j] # "\n"

\* Mutant: the test of Phase 1 with its "not" dropped.
PromptMatchInverted(data) == ~ReMatch(PyStr(data))

\* The test of Phase 1 on the bytes of one recv.
PromptMatch(data) == ReMatch(PyStr(data))

\* Mutant: the test of Phase 2 without .lower().
ReturnPromptMatchCaseSensitive(data) == ReMatch(PyStr(data))

\* The test of Phase 2 on the bytes of one recv.
ReturnPromptMatch(data) == ReMatch(Lower(PyStr(data)))

Min(a, b) == IF a <= b THEN a ELSE b

\* self.shell.recv(nbytes): at most nbytes of the pending bytes.
Recv(nbytes) == SubSeq(buf, 1, Min(nbytes, Len(buf)))

\* Mutant: recv leaves what it returned in the buffer.
AfterRecvKept(nbytes) == buf

\* What recv leaves pending: the bytes it returned are gone from the channel.
AfterRecv(nbytes) == SubSeq(buf, Min(nbytes, Len(buf)) + 1, Len(buf))

\* Mutant: the query answers True whatever is pending.
RecvReadyAlways == TRUE

\* self.shell.recv_ready()
RecvReady == buf # <<>>

-----------------------------------------------------------------------------
(* Commands, lines and exceptions *)

REBOOT == "sudo reboot"

SHUTDOWN == "sudo shutdown -h now"

Password == "dummy"

\* Mutant: the line without its newline.
CommandLineUnterminated(cmd) == <<cmd>>

\* str.encode(f'{cmd}\n')
CommandLine(cmd) == <<cmd, "\n">>

PasswordLine == <<Password, "\n">>

NoException == [exc |-> "none", msg |-> ""]

PromptTimeoutError == [exc |-> "UserWarning", msg |-> "No password prompt!"]

\* Mutant: the message of the other raise, pasted.
PasswordRejectedPasted == [exc |-> "UserWarning", msg |-> "No password prompt!"]

PasswordRejectedError == [exc |-> "UserWarning", msg |-> "Incorrect sudo password!"]

\* Whatever the channel library raises from send, recv_ready or recv.
TransportError == [exc |-> "ChannelException", msg |-> "transport"]

\* Which channel operation of a step fails, if it is reached.
FailPoints == {"none", "recv_ready", "recv", "send"}

\* Plain substring tests, used to record what the channel carried.
Contains(data, pat) ==
    \E i \in 1..Len(data) :
        /\ i + Len(pat) - 1 <= Len(data)
        /\ SubSeq(data, i, i + Len(pat) - 1) = pat

ContainsAnyCase(data, pat) == Contains(Lower(data), pat)

NoObs ==
    [reads |-> 0,            \* recv calls of this call
     ready1 |-> FALSE,       \* recv_ready returned True in Phase 1
     read1 |-> FALSE,        \* a Phase 1 recv returned text containing "password"
     read1Any |-> FALSE,     \* ... containing "password" in some letter case
     read2 |-> FALSE,        \* a Phase 2 recv returned text containing "password"
     read2Any |-> FALSE,     \* ... containing "password" in some letter case
     emit1 |-> FALSE,        \* the host emitted "password" inside the Phase 1 window
     emit2 |-> FALSE,        \* the host emitted it (any case) inside the Phase 2 window
     cause |-> "none",       \* why the call failed: the branch of the code that ended it
     fault |-> FALSE,        \* a channel operation of this call failed
     opsAfterFault |-> 0,    \* channel operations performed after that failure
     blocked |-> FALSE,      \* recv was called with nothing pending: it blocks
     closedUse |-> FALSE,    \* send was called on the shell after it was closed
     waitFrom |-> -1,        \* clock when the Phase 2 loop ended
     waited |-> FALSE]       \* at return: status_event was set or the wait timed out

-----------------------------------------------------------------------------
(* The context manager and log_in() *)

\* Mutant: log_in() without the test of its first line.
LogInConnectsAlways == TRUE

\* The test of log_in(): connect is called when there is no transport or the
\* transport is not alive.
LogInConnects == transport # "alive"

\* The except branch of log_in(): the error is logged and raised again.
ConnectFailed == <<"connect_failed", "raise">>

\* What one log_in() does, in order; connected tells whether
\* self.client.connect returns (or raises).
LogInEvents(connected) ==
    <<"log_in">> \o (IF ~LogInConnects THEN <<>>
                     ELSE IF connected THEN <<"connect">> ELSE ConnectFailed)

\* log_in() raised.
LogInRaised(connected) ==
    LET events == LogInEvents(connected) IN events[Len(events)] = "raise"

\* The transport after log_in().
LogInTransport(connected) ==
    IF LogInConnects /\ connected THEN "alive" ELSE transport

\* __enter__: create the client, log_in(), invoke_shell().  connect or
\* invoke_shell may raise; the with-statement then never runs __exit__.
Enter(result) ==
    /\ ctx = "new"
    /\ LET connected == result # "connect_raises" IN
       /\ transport' = LogInTransport(connected)
       /\ IF LogInRaised(connected)
          THEN /\ setup' = setup \o LogInEvents(connected)
               /\ client' = "none"
               /\ shell' = "none"
               /\ ctx' = "enter_raised"
          ELSE IF result = "invoke_shell_raises"
          THEN /\ setup' = setup \o LogInEvents(connected) \o <<"invoke_shell_failed">>
               /\ client' = "open"
               /\ shell' = "none"
               /\ ctx' = "enter_raised"
          ELSE /\ setup' = setup \o LogInEvents(connected) \o <<"invoke_shell">>
               /\ client' = IF transport' = "alive" THEN "open" ELSE "none"
               /\ shell' = "open"
               /\ ctx' = "body"
    /\ UNCHANGED <<config, pc, command, clock, t_now, buf, status_event, sent,
                   raised, calls, emits, obs, commands>>

\* __exit__: self.client.close(), which closes the transport and its channels.
\* It runs when the body of the with-statement ends or an exception leaves it.
Exit ==
    /\ ctx = "body"
    /\ pc \in {"idle", "returned", "raised"}
    /\ ctx' = "exited"
    /\ client' = "closed"
    /\ shell' = "closed"
    /\ transport' = "none"
    /\ UNCHANGED <<config, pc, command, clock, t_now, buf, status_event, sent,
                   raised, calls, emits, obs, setup, commands>>

LogIns == Cardinality({i \in DOMAIN setup : setup[i] = "log_in"})

\* log_in(), called by the user of the object on top of the call of __enter__.
log_in(connected) ==
    /\ ctx \in {"body", "exited"}
    /\ pc \in {"idle", "returned", "raised"}
    /\ LogIns <= MaxLogIns
    /\ setup' = setup \o LogInEvents(connected)
    /\ transport' = LogInTransport(connected)
    /\ client' = IF transport' = "alive" THEN "open" ELSE client
    /\ UNCHANGED <<config, ctx, shell, pc, command, clock, t_now, buf,
                   status_event, sent, raised, calls, emits, obs, commands>>

\* The connection is lost: the transport is no longer alive and its channels
\* are closed.
TransportDies ==
    /\ transport = "alive"
    /\ transport' = "dead"
    /\ shell' = IF shell = "open" THEN "closed" ELSE shell
    /\ UNCHANGED <<config, ctx, client, pc, command, clock, t_now, buf,
                   status_event, sent, raised, calls, emits, obs, setup, commands>>

-----------------------------------------------------------------------------
(* The remote host *)

InPhase1Window ==
    pc \in {"p1_loop", "p1_sleep"} /\ clock < t_now + PROMPT_POLL_TIMEOUT

InPhase2Window ==
    pc \in {"p2_loop", "p2_sleep"} /\ clock < t_now + WRONG_PASSWORD_TIMEOUT

\* The shell writes a chunk of output; it is buffered until the client reads.
Emit(chunk) ==
    /\ shell = "open"
    /\ emits < MaxEmits
    /\ emits' = emits + 1
    /\ buf' = buf \o chunk
    /\ obs' = [obs EXCEPT
                 !.emit1 = @ \/ (InPhase1Window /\ Contains(chunk, Pattern)),
                 !.emit2 = @ \/ (InPhase2Window /\ ContainsAnyCase(chunk, Pattern))]
    /\ UNCHANGED <<config, session, pc, command, clock, t_now, status_event,
                   sent, raised, calls, commands>>

\* The remote command ends: the channel's status_event is set.
CommandFinished ==
    /\ shell = "open"
    /\ calls > 0
    /\ ~status_event
    /\ status_event' = TRUE
    /\ UNCHANGED <<config, session, pc, command, clock, t_now, buf, sent,
                   raised, calls, emits, obs, commands>>

-----------------------------------------------------------------------------
(* reboot() and shutdown(): the password handshake *)

\* An exception leaves the call.
Raise(e) ==
    /\ pc' = "raised"
    /\ raised' = e

\* Mutant: the failure is caught and the polling goes on.
ChannelFailureSwallowed == UNCHANGED <<pc, raised>>

\* A channel operation raised: nothing in reboot()/shutdown() or the two wait
\* methods catches it.
ChannelFailure == Raise(TransportError)

\* Mutant: the while loop of Phase 1 without its else branch; the method
\* returns and the caller goes on to send the password.
PromptLoopFallsThrough ==
    /\ sent' = Append(sent, PasswordLine)
    /\ pc' = "p2_loop"
    /\ t_now' = clock
    /\ UNCHANGED raised

\* The else branch of the while loop of Phase 1: the loop ended without a break.
PromptLoopExhausted ==
    /\ Raise(PromptTimeoutError)
    /\ UNCHANGED <<sent, t_now>>

\* Mutant: on the second prompt the password is sent again and the polling
\* goes on.
ReturnPromptRetried ==
    /\ sent' = Append(sent, PasswordLine)
    /\ pc' = "p2_sleep"
    /\ UNCHANGED raised

\* The raise inside the while loop of Phase 2.
ReturnPromptSeen ==
    /\ Raise(PasswordRejectedError)
    /\ UNCHANGED sent

\* Mutant: output other than a second prompt is taken for the acceptance and
\* ends the loop of Phase 2.
ReturnPromptAbsentAccepts ==
    /\ pc' = "wait"
    /\ UNCHANGED <<raised, sent>>

\* The read of Phase 2 did not match: fall to the sleep at the end of the loop
\* body.
ReturnPromptAbsent ==
    /\ pc' = "p2_sleep"
    /\ UNCHANGED <<raised, sent>>

\* Mutant: the call closes the connection when it fails.
HandshakeClosesOnError ==
    /\ IF pc' = "raised"
       THEN client' = "closed" /\ shell' = "closed" /\ UNCHANGED <<ctx, transport, setup>>
       ELSE UNCHANGED session
    /\ UNCHANGED commands

\* What the call does to the client, the shell and the with-statement: nothing.
HandshakeFrame == UNCHANGED <<session, commands>>

\* One more channel operation of the running call.
Op(o) == [o EXCEPT !.opsAfterFault = IF o.fault THEN @ + 1 ELSE @]

Failed(o) == [o EXCEPT !.fault = TRUE, !.cause = "transport"]

\* Mutant: the object remembers that its password was accepted and a later
\* call does not wait for the prompt again.
PromptWaitSkippedOnceAccepted ==
    /\ pc' = IF pc = "returned" THEN "p2_loop" ELSE "p1_loop"
    /\ raised' = NoException

\* The command is sent: _wait_for_shell_password_prompt() is called, whatever
\* the calls before did.
PromptWaitBegins ==
    /\ pc' = "p1_loop"
    /\ raised' = NoException

\* The first line of either method: self.shell.send(str.encode(f'{cmd}\n')),
\* then t_now = time.time() of _wait_for_shell_password_prompt.  The caller is
\* inside the with-statement, or kept the object after leaving it: the send
\* is issued whatever the state of the shell, and a closed channel refuses it.
Call(cmd, fail) ==
    /\ ctx \in {"body", "exited"}
    /\ shell # "none"
    /\ pc \in {"idle", "returned", "raised"}
    /\ calls < MaxCalls
    /\ calls' = calls + 1
    /\ command' = cmd
    /\ clock' = 0
    /\ t_now' = 0
    /\ sent' = <<CommandLine(cmd)>>
    /\ IF fail = "send" \/ shell = "closed"
       THEN /\ ChannelFailure
            /\ obs' = [Failed(NoObs) EXCEPT !.closedUse = (shell = "closed")]
       ELSE /\ PromptWaitBegins
            /\ obs' = NoObs
    /\ HandshakeFrame
    /\ UNCHANGED <<config, buf, status_event, emits>>

reboot(fail) == Call(REBOOT, fail)

shutdown(fail) == Call(SHUTDOWN, fail)

\* One pass of the while loop of _wait_for_shell_password_prompt, up to its
\* sleep; on the break, the password line is sent and Phase 2 begins.
PromptPoll(fail) ==
    /\ pc = "p1_loop"
    /\ IF ~(clock < t_now + PROMPT_POLL_TIMEOUT)
       THEN /\ PromptLoopExhausted
            /\ obs' = [obs EXCEPT !.cause = "prompt_timeout"]
            /\ UNCHANGED buf
       ELSE IF fail = "recv_ready"
       THEN /\ ChannelFailure
            /\ obs' = Failed(Op(obs))
            /\ UNCHANGED <<buf, sent, t_now>>
       ELSE IF ~RecvReady
       THEN /\ pc' = "p1_sleep"
            /\ obs' = Op(obs)
            /\ UNCHANGED <<buf, sent, t_now, raised>>
       ELSE IF fail = "recv"
       THEN /\ ChannelFailure
            /\ obs' = Failed([Op(Op(obs)) EXCEPT !.ready1 = TRUE])
            /\ UNCHANGED <<buf, sent, t_now>>
       ELSE LET data == Recv(BYTES_TO_READ)
                seen == [Op(Op(obs)) EXCEPT
                           !.ready1 = TRUE,
                           !.reads = @ + 1,
                           !.blocked = @ \/ buf = <<>>,
                           !.read1 = @ \/ Contains(data, Pattern),
                           !.read1Any = @ \/ ContainsAnyCase(data, Pattern)]
            IN  /\ buf' = AfterRecv(BYTES_TO_READ)
                /\ IF ~PromptMatch(data)
                   THEN /\ pc' = "p1_sleep"
                        /\ obs' = seen
                        /\ UNCHANGED <<sent, t_now, raised>>
                   ELSE /\ sent' = Append(sent, PasswordLine)
                        /\ IF fail = "send"
                           THEN /\ ChannelFailure
                                /\ obs' = Failed(Op(seen))
                                /\ UNCHANGED t_now
                           ELSE /\ pc' = "p2_loop"
                                /\ t_now' = clock
                                /\ obs' = Op(seen)
                                /\ UNCHANGED raised
    /\ HandshakeFrame
    /\ UNCHANGED <<config, command, clock, status_event, calls, emits>>

\* time.sleep(PROMPT_POLL_INTERVAL) of Phase 1 ends.
PromptSleep ==
    /\ pc = "p1_sleep"
    /\ clock' = clock + PROMPT_POLL_INTERVAL
    /\ pc' = "p1_loop"
    /\ HandshakeFrame
    /\ UNCHANGED <<config, command, t_now, buf, status_event, sent, raised,
                   calls, emits, obs>>

\* One pass of the while loop of _wait_for_shell_password_return_prompt, up to
\* its sleep; when the loop ends the wait on status_event begins.
ReturnPromptPoll(fail) ==
    /\ pc = "p2_loop"
    /\ IF ~(clock < t_now + WRONG_PASSWORD_TIMEOUT)
       THEN /\ pc' = "wait"
            /\ obs' = [obs EXCEPT !.waitFrom = clock]
            /\ UNCHANGED <<buf, raised, sent>>
       ELSE IF fail = "recv_ready"
       THEN /\ ChannelFailure
            /\ obs' = Failed(Op(obs))
            /\ UNCHANGED <<buf, sent>>
       ELSE IF ~RecvReady
       THEN /\ pc' = "p2_sleep"
            /\ obs' = Op(obs)
            /\ UNCHANGED <<buf, raised, sent>>
       ELSE IF fail = "recv"
       THEN /\ ChannelFailure
            /\ obs' = Failed(Op(Op(obs)))
            /\ UNCHANGED <<buf, sent>>
       ELSE LET data == Recv(BYTES_TO_READ)
                seen == [Op(Op(obs)) EXCEPT
                           !.reads = @ + 1,
                           !.blocked = @ \/ buf = <<>>,
                           !.read2 = @ \/ Contains(data, Pattern),
                           !.read2Any = @ \/ ContainsAnyCase(data, Pattern)]
            IN  /\ buf' = AfterRecv(BYTES_TO_READ)
                /\ IF ReturnPromptMatch(data)
                   THEN /\ ReturnPromptSeen
                        /\ obs' = [seen EXCEPT !.cause = "password_rejected"]
                   ELSE /\ ReturnPromptAbsent
                        /\ obs' = seen
    /\ HandshakeFrame
    /\ UNCHANGED <<config, command, clock, t_now, status_event, calls, emits>>

\* time.sleep(PROMPT_POLL_INTERVAL) of Phase 2 ends.
ReturnPromptSleep ==
    /\ pc = "p2_sleep"
    /\ clock' = clock + PROMPT_POLL_INTERVAL
    /\ pc' = "p2_loop"
    /\ HandshakeFrame
    /\ UNCHANGED <<config, command, t_now, buf, status_event, sent, raised,
                   calls, emits, obs>>

\* Mutant: the wait without its timeout.
WaitOverNoTimeout ==
    status_event

\* self.shell.status_event.wait(timeout=PROMPT_POLL_TIMEOUT) is over.
WaitOver ==
    status_event \/ clock >= obs.waitFrom + PROMPT_POLL_TIMEOUT

\* A tick passes while the call blocks in status_event.wait.
WaitTick ==
    /\ pc = "wait"
    /\ ~WaitOver
    /\ clock' = clock + 1
    /\ HandshakeFrame
    /\ UNCHANGED <<config, pc, command, t_now, buf, status_event, sent, raised,
                   calls, emits, obs>>

\* status_event.wait returns; the success is logged and the call returns.
WaitReturn ==
    /\ pc = "wait"
    /\ WaitOver
    /\ pc' = "returned"
    /\ obs' = [obs EXCEPT
                 !.waited = status_event \/ clock >= obs.waitFrom + PROMPT_POLL_TIMEOUT]
    /\ HandshakeFrame
    /\ UNCHANGED <<config, command, clock, t_now, buf, status_event, sent,
                   raised, calls, emits>>

-----------------------------------------------------------------------------
(* execute_command() of the SSH client, in the three files that define it *)

Variants == {"ssh_client", "winrm_client", "remote_client"}

LineA == <<"a", "\n">>

LineB == <<"b", "\n">>

\* What a command may write on its stdout, line by line.
Outputs ==
    UNION {[1..n -> {LineA, LineB}] : n \in 0..MaxLines}

\* A file object over the lines of a channel, nothing read yet.
Stream(lines) == [lines |-> lines, pos |-> 0]

\* file.readlines(): the lines from the position on ...
ReadLines(stream) == SubSeq(stream.lines, stream.pos + 1, Len(stream.lines))

\* ... and the file is then at its end.
AfterReadLines(stream) == [stream EXCEPT !.pos = Len(stream.lines)]

\* ''.join(lines)
RECURSIVE Join(_)
Join(lines) ==
    IF lines = <<>> THEN <<>> ELSE Head(lines) \o Join(Tail(lines))

CommandError(cmd) ==
    [exc |-> "UserWarning", msg |-> "The command \"" \o cmd \o "\" was not successful!"]

NoExec ==
    [command |-> "none", ran |-> FALSE, status |-> 0, produced |-> <<>>,
     kind |-> "none", error |-> NoException, value |-> [type |-> "none"]]

\* execute_command(cmd) when exec_command itself raises: no session.
ExecRefused(cmd) ==
    [NoExec EXCEPT !.command = cmd, !.kind = "raised", !.error = TransportError]

\* execute_command(cmd) on a command that ends with the given exit status and
\* has written the given lines on its stdout.
Executed(cmd, status, lines) ==
    LET stdout == Stream(lines)
        done == [NoExec EXCEPT !.command = cmd, !.ran = TRUE, !.status = status,
                               !.produced = lines]
    IN  IF status # 0
        THEN [done EXCEPT !.kind = "raised", !.error = CommandError(cmd)]
        ELSE CASE variant = "ssh_client" ->
                    \* output = stdout.readlines(); log; return ''.join(output)
                    LET output == ReadLines(stdout) IN
                    [done EXCEPT !.kind = "returned",
                                 !.value = [type |-> "str", content |-> Join(output)]]
               [] variant = "winrm_client" ->
                    \* logging.info(..., stdout.readlines()); return stdout.readlines()
                    LET logged == AfterReadLines(stdout) IN
                    [done EXCEPT !.kind = "returned",
                                 !.value = [type |-> "list", content |-> ReadLines(logged)]]
               [] variant = "remote_client" ->
                    \* return stdin, stdout, stderr
                    [done EXCEPT !.kind = "returned",
                                 !.value = [type |-> "channels", content |-> stdout]]

execute_command(cmd, status, lines) ==
    /\ ctx \in {"body", "exited"}
    /\ pc \in {"idle", "returned", "raised"}
    /\ exec' = IF transport = "alive" THEN Executed(cmd, status, lines)
               ELSE ExecRefused(cmd)
    /\ UNCHANGED <<config, session, pc, command, clock, t_now, buf, status_event,
                   sent, raised, calls, emits, obs, variant, winrm>>

-----------------------------------------------------------------------------
(* The WinRM client *)

WindowsReboot == "shutdown -r"

WindowsShutdown == "shutdown -s"

RegisterQuery == "reg query"

RegistryRootKeys == {"HKER", "HKCU", "HKLM", "HKU", "HKCC"}

\* Bytes of std_out, as numbers.
StdOuts ==
    UNION {[1..n -> {97, 10}] : n \in 0..MaxStdOut}

\* bytes.decode('UTF-8'), on the bytes used here.
Chr(byte) == CASE byte = 97 -> "a" [] byte = 10 -> "\n" [] OTHER -> "?"

Decode(bytes) == [i \in 1..Len(bytes) |-> Chr(bytes[i])]

NoWinRM ==
    [session |-> FALSE, op |-> "none", immediately |-> FALSE, ran |-> <<>>,
     code |-> 0, kind |-> "none", error |-> NoException, value |-> <<>>,
     reported |-> FALSE]

\* WinRMClient(...): __init__ calls log_in(), which builds the winrm.Session.
WinRMClient ==
    /\ ~winrm.session
    /\ winrm' = [NoWinRM EXCEPT !.session = TRUE]
    /\ UNCHANGED <<config, session, pc, command, clock, t_now, buf, status_event,
                   sent, raised, calls, emits, obs, variant, exec>>

\* WinRMClient.execute_command(cmd, is_power_shell) inside the operation op;
\* the response has the given status code and std_out.  success tells whether
\* the operation logs its own success once execute_command has returned.
WinRMRun(op, immediately, cmd, is_power_shell, status_code, std_out, success) ==
    LET started == [NoWinRM EXCEPT
                      !.session = TRUE, !.op = op, !.immediately = immediately,
                      !.ran = <<[command |-> cmd,
                                 shell |-> IF is_power_shell THEN "ps" ELSE "cmd"]>>,
                      !.code = status_code]
    IN  IF status_code # 0
        THEN [started EXCEPT !.kind = "raised", !.error = CommandError(cmd)]
        ELSE [started EXCEPT !.kind = "returned", !.value = Decode(std_out),
                             !.reported = success]

WinRMFrame ==
    UNCHANGED <<config, session, pc, command, clock, t_now, buf, status_event,
                sent, raised, calls, emits, obs, variant, exec>>

WinRMExecuteCommand(cmd, is_power_shell, status_code, std_out) ==
    /\ winrm.session
    /\ winrm' = WinRMRun("execute_command", FALSE, cmd, is_power_shell,
                         status_code, std_out, FALSE)
    /\ WinRMFrame

\* Mutant: the delay is removed whatever the caller asked.
ImmediatelyAlways(immediately) == " -t 0"

\* if immediately: command += ' -t 0'
Immediately(immediately) == IF immediately THEN " -t 0" ELSE ""

WinRMReboot(immediately, status_code, std_out) ==
    /\ winrm.session
    /\ winrm' = WinRMRun("reboot", immediately,
                         WindowsReboot \o Immediately(immediately), FALSE,
                         status_code, std_out, TRUE)
    /\ WinRMFrame

WinRMShutdown(immediately, status_code, std_out) ==
    /\ winrm.session
    /\ winrm' = WinRMRun("shutdown", immediately,
                         WindowsShutdown \o Immediately(immediately), FALSE,
                         status_code, std_out, TRUE)
    /\ WinRMFrame

get_subkeys_and_entries_for_root_registry_key(root_key, status_code, std_out) ==
    /\ winrm.session
    /\ winrm' = WinRMRun("get_subkeys_and_entries_for_root_registry_key", FALSE,
                         RegisterQuery \o " " \o root_key, FALSE,
                         status_code, std_out, FALSE)
    /\ WinRMFrame

-----------------------------------------------------------------------------
(* Specifications *)

\* Nothing is recorded and nothing replayed.
NoReplay ==
    [phase |-> "off",     \* "first": a call is recorded; "second": it is replayed
     log |-> <<>>,        \* per statement of the first call that polls or sends:
                          \* what the host emitted before it, which operation failed
     since |-> <<>>,      \* what the host emitted since the last such statement
     next |-> 1,          \* the entry of log the second call is at
     fed |-> FALSE,       \* the bytes of that entry are on the channel
     first |-> [pc |-> "idle", raised |-> NoException, sent |-> <<>>]]

\* The state after the class attributes are set and the object is built.
\* Nothing read and nothing pending: no call has been made.
NoOrigin ==
    [before |-> 0,           \* pending bytes emitted before the command line was sent
     unread |-> 0,           \* pending bytes emitted before the password was sent
     heard1 |-> <<>>,        \* the bytes the recv calls of Phase 1 returned, in order
     heard2 |-> <<>>,        \* the bytes the recv calls of Phase 2 returned, in order
     banner |-> FALSE,       \* the password was sent on a match in bytes from before the command
     leftover |-> FALSE]     \* the rejection was raised on a match in bytes from before the password

Constructed ==
    /\ ctx = "new"
    /\ client = "none"
    /\ shell = "none"
    /\ pc = "idle"
    /\ command = "none"
    /\ clock = 0
    /\ t_now = 0
    /\ buf = <<>>
    /\ status_event = FALSE
    /\ sent = <<>>
    /\ raised = NoException
    /\ calls = 0
    /\ emits = 0
    /\ obs = NoObs
    /\ transport = "none"
    /\ setup = <<>>
    /\ exec = NoExec
    /\ winrm = NoWinRM
    /\ outcomes = {}
    /\ origin = NoOrigin

\* The handshake of src/ssh_client.py under any timing configuration.
Init ==
    /\ PROMPT_POLL_INTERVAL \in 1..MaxInterval
    /\ PROMPT_POLL_TIMEOUT \in 1..MaxPromptTimeout
    /\ WRONG_PASSWORD_TIMEOUT \in 1..MaxWrongTimeout
    /\ BYTES_TO_READ \in {SmallRead, Len(Pattern), DefaultBytesToRead}
    /\ variant = "ssh_client"
    /\ replay = NoReplay
    /\ Constructed

Next ==
    \/ (\E fail \in {"none", "send"} : reboot(fail)) /\ UNCHANGED history
    \/ (\E fail \in {"none", "send"} : shutdown(fail)) /\ UNCHANGED history
    \/ (\E fail \in FailPoints : PromptPoll(fail)) /\ UNCHANGED history
    \/ (\E fail \in FailPoints : ReturnPromptPoll(fail)) /\ UNCHANGED history
    \/ (\E result \in {"ok", "connect_raises", "invoke_shell_raises"} : Enter(result))
       /\ UNCHANGED history
    \/ Exit /\ UNCHANGED history
    \/ (\E chunk \in Chunks : Emit(chunk)) /\ UNCHANGED history
    \/ CommandFinished /\ UNCHANGED history
    \/ PromptSleep /\ UNCHANGED history
    \/ ReturnPromptSleep /\ UNCHANGED history
    \/ WaitTick /\ UNCHANGED history
    \/ WaitReturn /\ UNCHANGED history

Spec == Init /\ [][Next]_vars

\* The same program, with the history of what the calls raised kept in outcomes.
Record ==
    /\ outcomes' = IF pc' = "raised"
                   THEN outcomes \cup {[cause |-> obs'.cause, raised |-> raised']}
                   ELSE outcomes
    /\ UNCHANGED <<replay, origin>>

NextRecorded ==
    \/ (\E fail \in {"none", "send"} : reboot(fail)) /\ Record
    \/ (\E fail \in {"none", "send"} : shutdown(fail)) /\ Record
    \/ (\E fail \in FailPoints : PromptPoll(fail)) /\ Record
    \/ (\E fail \in FailPoints : ReturnPromptPoll(fail)) /\ Record
    \/ (\E result \in {"ok", "connect_raises", "invoke_shell_raises"} : Enter(result))
       /\ UNCHANGED history
    \/ Exit /\ UNCHANGED history
    \/ (\E chunk \in Chunks : Emit(chunk)) /\ UNCHANGED history
    \/ CommandFinished /\ UNCHANGED history
    \/ PromptSleep /\ UNCHANGED history
    \/ ReturnPromptSleep /\ UNCHANGED history
    \/ WaitTick /\ UNCHANGED history
    \/ WaitReturn /\ UNCHANGED history

SpecRecorded == Init /\ [][NextRecorded]_vars

\* The session and execute_command(), for the class of any of the three files.
\* The class attributes play no part in these operations.
InitSession ==
    /\ PROMPT_POLL_INTERVAL = 1
    /\ PROMPT_POLL_TIMEOUT = 1
    /\ WRONG_PASSWORD_TIMEOUT = 1
    /\ BYTES_TO_READ = DefaultBytesToRead
    /\ variant \in Variants
    /\ replay = NoReplay
    /\ Constructed

NextSession ==
    \/ (\E result \in {"ok", "connect_raises", "invoke_shell_raises"} : Enter(result))
       /\ UNCHANGED history
    \/ Exit /\ UNCHANGED history
    \/ (\E connected \in BOOLEAN : log_in(connected)) /\ UNCHANGED history
    \/ TransportDies /\ UNCHANGED history
    \/ (\E cmd \in {"ls", "df -hl"}, status \in 0..MaxExitStatus, lines \in Outputs :
            execute_command(cmd, status, lines)) /\ UNCHANGED history

SpecSession == InitSession /\ [][NextSession]_vars

\* The WinRM client, which src/winrm_client.py defines.
InitWinRM ==
    /\ PROMPT_POLL_INTERVAL = 1
    /\ PROMPT_POLL_TIMEOUT = 1
    /\ WRONG_PASSWORD_TIMEOUT = 1
    /\ BYTES_TO_READ = DefaultBytesToRead
    /\ variant = "winrm_client"
    /\ replay = NoReplay
    /\ Constructed

NextWinRM ==
    \/ WinRMClient /\ UNCHANGED history
    \/ (\E cmd \in {"ipconfig", "date/T"}, is_power_shell \in BOOLEAN,
           status_code \in 0..MaxStatusCode, std_out \in StdOuts :
            WinRMExecuteCommand(cmd, is_power_shell, status_code, std_out))
       /\ UNCHANGED history
    \/ (\E immediately \in BOOLEAN, status_code \in 0..MaxStatusCode, std_out \in StdOuts :
            WinRMReboot(immediately, status_code, std_out)) /\ UNCHANGED history
    \/ (\E immediately \in BOOLEAN, status_code \in 0..MaxStatusCode, std_out \in StdOuts :
            WinRMShutdown(immediately, status_code, std_out)) /\ UNCHANGED history
    \/ (\E root_key \in RegistryRootKeys, status_code \in 0..MaxStatusCode,
           std_out \in StdOuts :
            get_subkeys_and_entries_for_root_registry_key(root_key, status_code, std_out))
       /\ UNCHANGED history

SpecWinRM == InitWinRM /\ [][NextWinRM]_vars

\* Two calls in sequence, the second on a fresh channel that behaves as the
\* channel of the first did: before each statement that polls or sends it has
\* received what the first had received, and the same operation fails.
InitReplay ==
    /\ PROMPT_POLL_INTERVAL \in 1..MaxInterval
    /\ PROMPT_POLL_TIMEOUT \in 1..MaxPromptTimeout
    /\ WRONG_PASSWORD_TIMEOUT \in 1..MaxWrongTimeout
    /\ BYTES_TO_READ \in {SmallRead, Len(Pattern), DefaultBytesToRead}
    /\ variant = "ssh_client"
    /\ replay = [NoReplay EXCEPT !.phase = "first"]
    /\ Constructed

\* The entry of the log the second call is at.
Entry ==
    IF replay.next <= Len(replay.log) THEN replay.log[replay.next]
    ELSE [emitted |-> <<>>, fail |-> "none"]

\* A statement of a call that polls or sends: recorded in the first call,
\* taken once the channel has been fed and with the recorded failure in the
\* second.
Replayed(fail) ==
    /\ UNCHANGED <<outcomes, origin>>
    /\ IF replay.phase = "first"
       THEN replay' = [replay EXCEPT
                         !.log = Append(@, [emitted |-> replay.since,
                                            fail |-> IF obs'.fault THEN fail ELSE "none"]),
                         !.since = <<>>]
       ELSE /\ replay.fed
            /\ fail = Entry.fail
            /\ replay' = [replay EXCEPT !.next = @ + 1, !.fed = FALSE]

\* The host emits during the first call.  What it emits before the call or
\* while the call sleeps is on the channel at the next poll, as if emitted just
\* before that poll, and what it emits later than the last poll is never read:
\* only the emissions just before a poll are told apart.
Recorded(chunk) ==
    /\ replay.phase = "first"
    /\ pc \in {"p1_loop", "p2_loop"}
    /\ emits < MaxReplayEmits
    /\ UNCHANGED <<outcomes, origin>>
    /\ replay' = [replay EXCEPT !.since = @ \o chunk]

\* The first call is over: self.shell is a fresh channel for the second.
Reset ==
    /\ replay.phase = "first"
    /\ calls = 1
    /\ pc \in {"returned", "raised"}
    /\ replay' = [replay EXCEPT !.phase = "second", !.since = <<>>,
                                !.first = [pc |-> pc, raised |-> raised, sent |-> sent]]
    /\ buf' = <<>>
    /\ status_event' = FALSE
    /\ UNCHANGED <<config, session, pc, command, clock, t_now, sent, raised,
                   calls, emits, obs, commands, outcomes, origin>>

\* The channel of the second call receives what the channel of the first had
\* received before the same statement.
Feed ==
    /\ replay.phase = "second"
    /\ ~replay.fed
    /\ \/ calls = 1 /\ pc \in {"returned", "raised"}
       \/ calls = 2 /\ pc \in {"p1_loop", "p2_loop"}
    /\ buf' = buf \o Entry.emitted
    /\ replay' = [replay EXCEPT !.fed = TRUE]
    /\ UNCHANGED <<config, session, pc, command, clock, t_now, status_event,
                   sent, raised, calls, emits, obs, commands, outcomes, origin>>

NextReplay ==
    \/ Enter("ok") /\ UNCHANGED history
    \/ (\E chunk \in Chunks : Emit(chunk) /\ Recorded(chunk))
    \/ (\E fail \in {"none", "send"} :
            /\ reboot(fail)
            /\ calls = 0 \/ (calls = 1 /\ command = REBOOT)
            /\ Replayed(fail))
    \/ (\E fail \in {"none", "send"} :
            /\ shutdown(fail)
            /\ calls = 0 \/ (calls = 1 /\ command = SHUTDOWN)
            /\ Replayed(fail))
    \/ (\E fail \in FailPoints : PromptPoll(fail) /\ Replayed(fail))
    \/ (\E fail \in FailPoints : ReturnPromptPoll(fail) /\ Replayed(fail))
    \/ CommandFinished /\ pc = "wait" /\ UNCHANGED history
    \/ PromptSleep /\ UNCHANGED history
    \/ ReturnPromptSleep /\ UNCHANGED history
    \/ WaitTick /\ UNCHANGED history
    \/ WaitReturn /\ UNCHANGED history
    \/ Reset
    \/ Feed

SpecReplay == InitReplay /\ [][NextReplay]_vars

\* The handshake, with the history of where the bytes it reads come from: how
\* many of the pending bytes were already on the channel when the command line
\* (the password) was sent, and what the recv calls of each phase returned.

\* The command is sent: all that is pending was emitted before it.
Started ==
    /\ origin' = [NoOrigin EXCEPT !.before = Len(buf)]
    /\ UNCHANGED <<outcomes, replay>>

\* The bytes the recv of the step returned: those gone from the channel.
Received == SubSeq(buf, 1, Len(buf) - Len(buf'))

\* The first count bytes of data, those of them there are.
Oldest(data, count) == SubSeq(data, 1, Min(count, Len(data)))

Remaining(count, data) == IF count > Len(data) THEN count - Len(data) ELSE 0

\* A pass of Phase 1.  When it sends the password, all that is still pending
\* was emitted before the password.
Heard1 ==
    /\ origin' = [origin EXCEPT
                    !.heard1 = @ \o Received,
                    !.before = Remaining(@, Received),
                    !.unread = IF Len(sent') > Len(sent) THEN Len(buf') ELSE @,
                    !.banner = @ \/ /\ Len(sent') > Len(sent)
                                    /\ PromptMatch(Oldest(Received, origin.before))]
    /\ UNCHANGED <<outcomes, replay>>

\* A pass of Phase 2.
Heard2 ==
    /\ origin' = [origin EXCEPT
                    !.heard2 = @ \o Received,
                    !.unread = Remaining(@, Received),
                    !.leftover = @ \/ /\ pc' = "raised"
                                      /\ raised' = PasswordRejectedError
                                      /\ ReturnPromptMatch(Oldest(Received, origin.unread))]
    /\ UNCHANGED <<outcomes, replay>>

NextOrigin ==
    \/ (\E fail \in {"none", "send"} : reboot(fail)) /\ Started
    \/ (\E fail \in {"none", "send"} : shutdown(fail)) /\ Started
    \/ (\E fail \in FailPoints : PromptPoll(fail)) /\ Heard1
    \/ (\E fail \in FailPoints : ReturnPromptPoll(fail)) /\ Heard2
    \/ (\E result \in {"ok", "connect_raises", "invoke_shell_raises"} : Enter(result))
       /\ UNCHANGED history
    \/ Exit /\ UNCHANGED history
    \/ (\E chunk \in Chunks : Emit(chunk)) /\ UNCHANGED history
    \/ CommandFinished /\ UNCHANGED history
    \/ PromptSleep /\ UNCHANGED history
    \/ ReturnPromptSleep /\ UNCHANGED history
    \/ WaitTick /\ UNCHANGED history
    \/ WaitReturn /\ UNCHANGED history

SpecOrigin == Init /\ [][NextOrigin]_vars

-----------------------------------------------------------------------------
(* Properties *)

InPhase1 == pc \in {"p1_loop", "p1_sleep"}

Ended == pc \in {"returned", "raised"}

PasswordWrites == Cardinality({i \in DOMAIN sent : sent[i] = PasswordLine})

CommandWrites == Cardinality({i \in DOMAIN sent : sent[i] = CommandLine(command)})

\* C1, as stated (here at the default read size, where one recv takes all
\* the pending bytes): whenever the host emits text containing "password"
\* inside the Phase 1 window and no channel operation fails, the call leaves
\* Phase 1 without the prompt-timeout error and has written the password line
\* once.
C1_EmittedPromptSendsPassword ==
    (Ended /\ obs.emit1 /\ ~obs.fault /\ BYTES_TO_READ = DefaultBytesToRead)
        => (raised # PromptTimeoutError /\ PasswordWrites = 1)

\* C1, amended: whenever a recv of Phase 1 returns text containing
\* "password", Phase 1 is left without raising and the password line is handed
\* to send exactly once.
C1_ReadPromptSendsPassword ==
    obs.read1 => (~InPhase1 /\ raised # PromptTimeoutError /\ PasswordWrites = 1)

C1_Witness ==
    obs.read1 /\ pc = "p2_loop" /\ PasswordWrites = 1 /\ clock > 0

\* C2: a call in which no data-ready query of Phase 1 returned True (and none
\* failed) ends with UserWarning('No password prompt!'), and the password line
\* is never written in it.
C2_NeverReadyTimesOut ==
    /\ ~obs.ready1 => PasswordWrites = 0
    /\ (Ended /\ ~obs.ready1 /\ ~obs.fault) => (pc = "raised" /\ raised = PromptTimeoutError)

C2_Witness ==
    /\ pc = "raised"
    /\ raised = PromptTimeoutError
    /\ ~obs.ready1
    /\ PasswordWrites = 0
    /\ clock >= PROMPT_POLL_TIMEOUT

\* C3, as stated (here at the default read size): whenever the host emits
\* text containing "password" in any letter case inside the Phase 2 window and
\* no channel operation fails, the call ends with UserWarning('Incorrect sudo
\* password!').
C3_EmittedRepromptRejects ==
    (Ended /\ obs.emit2 /\ ~obs.fault /\ BYTES_TO_READ = DefaultBytesToRead)
        => (pc = "raised" /\ raised = PasswordRejectedError)

\* C3, amended: whenever a recv of Phase 2 returns text containing "password"
\* in any letter case, the call ends with UserWarning('Incorrect sudo
\* password!') at that read and does not return.
C3_ReadRepromptRejects ==
    obs.read2Any => (pc = "raised" /\ raised = PasswordRejectedError)

C3_Witness ==
    /\ obs.read2Any
    /\ ~obs.read2
    /\ pc = "raised"
    /\ raised = PasswordRejectedError

\* C4: a call that sent the password, in which the host emitted no text
\* containing "password" (any case) inside the Phase 2 window and no channel
\* operation failed, returns normally, and not before status_event was set or
\* PROMPT_POLL_TIMEOUT had passed since the Phase 2 loop ended.
C4_NoRepromptReturnsSuccess ==
    (Ended /\ Len(sent) = 2 /\ ~obs.emit2 /\ ~obs.fault)
        => (pc = "returned" /\ obs.waited)

\* C5: a recv of Phase 1 that returns text containing "password" in any letter
\* case ends Phase 1 without the prompt-timeout error, as the lower-case form
\* does.
C5_PromptAnyCaseAdvances ==
    obs.read1Any => (~InPhase1 /\ raised # PromptTimeoutError /\ PasswordWrites = 1)

\* C6, as stated: two calls that failed for different reasons (prompt
\* timeout, password rejected, transport failure) raised exceptions of
\* different kinds (classes), and a call that failed does not return normally.
C6_DistinctErrorKinds ==
    /\ \A a, b \in outcomes : a.cause # b.cause => a.raised.exc # b.raised.exc
    /\ obs.cause # "none" => (pc = "raised" /\ raised # NoException)

\* C6, amended: two calls that failed for different reasons raised different
\* exceptions, where the prompt timeout and the rejected password are both a
\* UserWarning and differ in the message only, and the transport failure is
\* of another class; a call that failed does not return normally.
C6_DistinctOutcomes ==
    /\ \A a, b \in outcomes :
          a.cause # b.cause =>
              /\ a.raised # b.raised
              /\ ("transport" \in {a.cause, b.cause} => a.raised.exc # b.raised.exc)
    /\ \A a \in outcomes : a.cause # "none" /\ a.raised # NoException
    /\ obs.cause # "none" => (pc = "raised" /\ raised # NoException)

C6_Witness ==
    \E a, b \in outcomes :
        /\ a.cause = "prompt_timeout"
        /\ b.cause = "password_rejected"
        /\ a.raised.exc = b.raised.exc
        /\ a.raised.msg # b.raised.msg

\* C7: once a channel operation of a call has failed, the call has ended with
\* the library's exception, which is neither of the two UserWarnings, and the
\* call performs no channel operation after the failure.
C7_TransportFailureEndsCall ==
    obs.fault =>
        /\ pc = "raised"
        /\ raised = TransportError
        /\ raised.exc # PromptTimeoutError.exc
        /\ raised.exc # PasswordRejectedError.exc
        /\ obs.opsAfterFault = 0

C7_Witness ==
    obs.fault /\ Len(sent) = 2 /\ obs.reads >= 2 /\ pc = "raised" /\ clock > 0

C8_WritesOnce ==
    pc # "idle" =>
        /\ Len(sent) \in {1, 2}
        /\ sent[1] = CommandLine(command)
        /\ CommandWrites = 1
        /\ PasswordWrites <= 1

C8_TerminalStep ==
    (raised \in {PromptTimeoutError, PasswordRejectedError} /\ calls' = calls)
        => (sent' = sent /\ raised' = raised /\ pc' = pc)

\* C8: in one call the command line is handed to send exactly once and the
\* password line at most once, and after UserWarning('No password prompt!') or
\* UserWarning('Incorrect sudo password!') the call writes nothing more.
C8_NoRetries == [](C8_WritesOnce) /\ [][C8_TerminalStep]_vars

C8_Witness ==
    pc = "raised" /\ raised = PasswordRejectedError /\ Len(sent) = 2 /\ calls = 2

\* C9: the first line handed to send is the newline-terminated command, sent
\* before any recv of the call; the second, if any, is the newline-terminated
\* password, sent only after a recv of Phase 1 returned text containing
\* "password".
C9_WritesOrdered ==
    /\ \A i \in DOMAIN sent : sent[i][Len(sent[i])] = "\n"
    /\ obs.reads > 0 => (Len(sent) >= 1 /\ sent[1] = CommandLine(command))
    /\ Len(sent) >= 2 =>
          /\ sent[1] = CommandLine(command)
          /\ sent[2] = PasswordLine
          /\ obs.read1
    /\ sent # <<>> => sent[1] # PasswordLine

C9_Witness ==
    Len(sent) = 2 /\ obs.reads >= 2 /\ pc = "p2_loop"

\* C10: reboot()/shutdown() never close the connection: inside the
\* with-statement the client and the shell are open whatever the call did, and
\* they are closed only once __exit__ has run.
C10_HandshakeNeverCloses ==
    /\ ctx = "body" => (client = "open" /\ shell = "open")
    /\ (client = "closed" \/ shell = "closed") => ctx = "exited"

C10_Witness ==
    /\ ctx = "body"
    /\ pc = "raised"
    /\ raised = PasswordRejectedError
    /\ client = "open"
    /\ shell = "open"

\* C11: once __exit__ has closed the session, no call of reboot() or
\* shutdown() on the same object issues a channel operation on the closed
\* shell.
C11_ClosedChannelNotReused ==
    ~obs.closedUse

\* C12: whenever the with-statement has been left, by the end of its body, by
\* an exception of its body or by an exception of __enter__, a connection that
\* log_in opened is closed.
C12_ConnectionClosedOnLeave ==
    ctx \in {"exited", "enter_raised"} => client # "open"

\* A step of the running call in which recv returned data.
ReadStep ==
    obs'.reads = obs.reads + 1

\* What the recv of a ReadStep returned.
ReadData ==
    SubSeq(buf, 1, Len(buf) - Len(buf'))

C15_Discarded ==
    (ReadStep /\ pc = "p1_loop" /\ ~Contains(ReadData, Pattern)) =>
        /\ Len(buf') < Len(buf)
        /\ buf' = SubSeq(buf, Len(buf) - Len(buf') + 1, Len(buf))
        /\ pc' = "p1_sleep"
        /\ sent' = sent
        /\ clock < PROMPT_POLL_TIMEOUT

C15_TimesOut ==
    (InPhase1 \/ Ended) /\ ~obs.read1 =>
        /\ PasswordWrites = 0
        /\ (Ended /\ ~obs.fault) =>
              /\ pc = "raised"
              /\ raised = PromptTimeoutError
              /\ clock >= PROMPT_POLL_TIMEOUT

\* C15: data read in Phase 1 that does not contain "password" is consumed and
\* dropped and the polling goes on; if no read of Phase 1 contains "password"
\* the call ends, once PROMPT_POLL_TIMEOUT has passed and not before, with the
\* prompt-timeout error, and the password is never written.
C15_NoMatchTimesOut ==
    [](C15_TimesOut) /\ [][C15_Discarded]_vars

C15_Witness ==
    /\ pc = "raised"
    /\ raised = PromptTimeoutError
    /\ obs.reads >= 2
    /\ ~obs.read1
    /\ PasswordWrites = 0
    /\ buf = <<>>

C16_FullWindow ==
    (pc \in {"wait", "returned"}) =>
        /\ clock >= t_now + WRONG_PASSWORD_TIMEOUT
        /\ obs.waitFrom >= t_now + WRONG_PASSWORD_TIMEOUT
        /\ ~obs.read2Any

C16_KeepsPolling ==
    (ReadStep /\ pc = "p2_loop" /\ ~ContainsAnyCase(ReadData, Pattern)) =>
        /\ pc' = "p2_sleep"
        /\ raised' = raised
        /\ sent' = sent
        /\ t_now' = t_now

\* C16: the call reaches the wait on status_event, and returns, only once
\* WRONG_PASSWORD_TIMEOUT has passed since the password was sent; a recv of
\* Phase 2 whose text holds "password" in no letter case neither ends the loop
\* nor raises: the call sleeps and polls again, with the same deadline.
C16_PhaseTwoRunsFullWindow ==
    [](C16_FullWindow) /\ [][C16_KeepsPolling]_vars

C16_Witness ==
    /\ pc = "returned"
    /\ obs.reads >= 2
    /\ Len(sent) = 2
    /\ WRONG_PASSWORD_TIMEOUT = MaxWrongTimeout
    /\ clock >= t_now + WRONG_PASSWORD_TIMEOUT

C17_NoReadWhenNotReady ==
    (pc \in {"p1_loop", "p2_loop"} /\ buf = <<>> /\ pc' # pc) =>
        /\ obs'.reads = obs.reads
        /\ buf' = buf
        /\ pc' \in {"p1_sleep", "p2_sleep", "wait", "raised"}
        /\ (pc' = "raised" => raised' \in {TransportError, PromptTimeoutError})

C17_SleepsInterval ==
    (pc \in {"p1_sleep", "p2_sleep"} /\ pc' # pc) =>
        /\ clock' = clock + PROMPT_POLL_INTERVAL
        /\ obs'.reads = obs.reads
        /\ buf' = buf

\* C17: no recv of either phase is issued with nothing pending: each recv
\* follows, in the same pass of the loop, a recv_ready that returned True;
\* when nothing is pending the pass reads nothing and goes to
\* time.sleep(PROMPT_POLL_INTERVAL) (or the loop is over, or recv_ready itself
\* failed).
C17_NoBlockingRead ==
    /\ [](~obs.blocked)
    /\ [][C17_NoReadWhenNotReady]_vars
    /\ [][C17_SleepsInterval]_vars

C17_Witness ==
    /\ obs.reads = 1
    /\ pc = "p2_sleep"
    /\ buf = <<>>

Running ==
    pc \in {"p1_loop", "p1_sleep", "p2_loop", "p2_sleep", "wait"}

\* The next statement of the running call: a sleep, the wait on status_event,
\* and in a loop the test of the while, followed inside the window by the call
\* of recv_ready() (taken here with the outcome that recv_ready() raises, the
\* one pass that reads nothing of the channel).
HandshakeStep ==
    \/ PromptPoll("recv_ready") /\ UNCHANGED history
    \/ ReturnPromptPoll("recv_ready") /\ UNCHANGED history
    \/ PromptSleep
    \/ ReturnPromptSleep
    \/ WaitTick
    \/ WaitReturn

\* The outcomes the call has reached.
CallOutcomes ==
    {o \in {"accepted", "prompt_timeout", "password_rejected", "transport_error"} :
        \/ o = "accepted" /\ pc = "returned" /\ raised = NoException
        \/ o = "prompt_timeout" /\ pc = "raised" /\ raised = PromptTimeoutError
        \/ o = "password_rejected" /\ pc = "raised" /\ raised = PasswordRejectedError
        \/ o = "transport_error" /\ pc = "raised" /\ raised = TransportError}

Positive(n) == IF n > 0 THEN n ELSE 0

\* The most statements the wait on status_event can still take.
WaitLeft == Positive(obs.waitFrom + PROMPT_POLL_TIMEOUT - clock) + 1

\* The most statements of the running call that are still to come: two for
\* each tick left in the window of a loop (a poll and a sleep), one for
\* leaving the loop, and what follows the loop.
StepsLeft ==
    CASE pc = "p1_loop" ->
            2 * Positive(t_now + PROMPT_POLL_TIMEOUT - clock)
            + 2 * WRONG_PASSWORD_TIMEOUT + PROMPT_POLL_TIMEOUT + 3
      [] pc = "p1_sleep" ->
            2 * Positive(t_now + PROMPT_POLL_TIMEOUT - clock - PROMPT_POLL_INTERVAL)
            + 2 * WRONG_PASSWORD_TIMEOUT + PROMPT_POLL_TIMEOUT + 4
      [] pc = "p2_loop" ->
            2 * Positive(t_now + WRONG_PASSWORD_TIMEOUT - clock)
            + PROMPT_POLL_TIMEOUT + 2
      [] pc = "p2_sleep" ->
            2 * Positive(t_now + WRONG_PASSWORD_TIMEOUT - clock - PROMPT_POLL_INTERVAL)
            + PROMPT_POLL_TIMEOUT + 3
      [] pc = "wait" -> WaitLeft
      [] OTHER -> 0

C20_Bounded ==
    /\ InPhase1 =>
          /\ t_now = 0
          /\ clock < PROMPT_POLL_TIMEOUT + PROMPT_POLL_INTERVAL
    /\ pc \in {"p2_loop", "p2_sleep"} =>
          /\ t_now < PROMPT_POLL_TIMEOUT
          /\ clock < t_now + WRONG_PASSWORD_TIMEOUT + PROMPT_POLL_INTERVAL
    /\ pc \in {"wait", "returned"} =>
          /\ obs.waitFrom < t_now + WRONG_PASSWORD_TIMEOUT + PROMPT_POLL_INTERVAL
          /\ clock <= obs.waitFrom + PROMPT_POLL_TIMEOUT
    /\ Running => (CallOutcomes = {} /\ ENABLED HandshakeStep)
    /\ Ended => Cardinality(CallOutcomes) = 1

C20_Decreases ==
    (Running /\ (pc' # pc \/ clock' # clock)) =>
        /\ StepsLeft' < StepsLeft
        /\ StepsLeft' >= 0
        /\ (StepsLeft' = 0 <=> pc' \in {"returned", "raised"})

\* C20: every call of reboot()/shutdown() ends.  While it runs its next
\* statement can always be taken, and each statement taken lowers a bound on
\* those to come.  Phase 1 is over before PROMPT_POLL_TIMEOUT plus one sleep
\* has passed, Phase 2 before WRONG_PASSWORD_TIMEOUT plus one sleep has passed
\* since the password, the wait on status_event after at most
\* PROMPT_POLL_TIMEOUT more, set or not; a call that ended has reached exactly
\* one of accepted, prompt timeout, password rejected and transport error.
C20_CallTerminates ==
    [](C20_Bounded) /\ [][C20_Decreases]_vars

C20_Witness ==
    /\ pc = "returned"
    /\ ~status_event
    /\ clock = obs.waitFrom + PROMPT_POLL_TIMEOUT
    /\ PROMPT_POLL_TIMEOUT = MaxPromptTimeout

\* The text a caller gets out of what execute_command() returned.
OutputOf(value) ==
    CASE value.type = "str" -> value.content
      [] value.type = "list" -> Join(value.content)
      [] value.type = "channels" -> Join(ReadLines(value.content))
      [] OTHER -> <<>>

\* C14: execute_command() of the SSH client raises exactly when the exit
\* status of the command is not zero, and on exit status zero it returns all
\* that the command wrote on its stdout, in each of the three files.
C14_ExecuteCommandReturnsOutput ==
    exec.ran =>
        /\ exec.kind = "raised" <=> exec.status # 0
        /\ exec.kind = "returned" <=> exec.status = 0
        /\ exec.kind = "returned" => OutputOf(exec.value) = Join(exec.produced)

C18_SetupOrdered ==
    /\ \A i \in DOMAIN setup :
          /\ setup[i] \in {"invoke_shell", "invoke_shell_failed"} =>
                (i > 2 /\ setup[i - 1] = "connect" /\ setup[i - 2] = "log_in")
          /\ setup[i] \in {"connect", "connect_failed"} =>
                (i > 1 /\ setup[i - 1] = "log_in")
          /\ setup[i] = "connect_failed" =>
                (i < Len(setup) /\ setup[i + 1] = "raise")
          /\ setup[i] = "raise" =>
                (i > 1 /\ setup[i - 1] = "connect_failed"
                 /\ (i < Len(setup) => setup[i + 1] = "log_in"))
    /\ shell # "none" => \E i \in DOMAIN setup : setup[i] = "invoke_shell"
    /\ (ctx = "enter_raised" /\ setup[Len(setup)] = "raise") =>
          (shell = "none" /\ client = "none" /\ transport = "none")

C18_ConnectsWhenNeeded ==
    setup' # setup =>
        LET new == SubSeq(setup', Len(setup) + 1, Len(setup')) IN
        /\ new[1] = "log_in"
        /\ transport = "alive" => (new = <<"log_in">> /\ transport' = "alive")
        /\ transport # "alive" =>
              (Len(new) >= 2 /\ new[2] \in {"connect", "connect_failed"})
        /\ (Len(new) >= 2 /\ new[2] = "connect") => transport' = "alive"
        /\ (Len(new) >= 2 /\ new[2] = "connect_failed") => transport' = transport

\* C18: __enter__ opens the shell only after a log_in() that did not raise;
\* log_in() calls connect when there is no transport or the transport is not
\* alive, and only then, so that on a live session it connects nothing; when
\* connect fails the error is raised again and no shell is opened.
C18_SetupOrderedLoginIdempotent ==
    [](C18_SetupOrdered) /\ [][C18_ConnectsWhenNeeded]_vars

C18_Witness ==
    /\ ctx = "body"
    /\ transport = "alive"
    /\ setup = <<"log_in", "connect", "invoke_shell", "log_in">>

\* C19: reboot() and shutdown() of the WinRM client run one command each,
\* 'shutdown -r' resp. 'shutdown -s' with ' -t 0' appended exactly when
\* immediately is true, through run_cmd; they log their success exactly when
\* its status code is zero, and on another status code the UserWarning of
\* execute_command leaves them.
C19_WinRMPowerCommands ==
    winrm.op \in {"reboot", "shutdown"} =>
        /\ Len(winrm.ran) = 1
        /\ winrm.ran[1].shell = "cmd"
        /\ winrm.ran[1].command =
              (CASE winrm.op = "reboot" /\ ~winrm.immediately -> "shutdown -r"
                 [] winrm.op = "reboot" /\ winrm.immediately -> "shutdown -r -t 0"
                 [] winrm.op = "shutdown" /\ ~winrm.immediately -> "shutdown -s"
                 [] winrm.op = "shutdown" /\ winrm.immediately -> "shutdown -s -t 0")
        /\ winrm.reported <=> winrm.code = 0
        /\ winrm.code = 0 => (winrm.kind = "returned" /\ winrm.error = NoException)
        /\ winrm.code # 0 =>
              /\ winrm.kind = "raised"
              /\ winrm.error.exc = "UserWarning"
              /\ ~winrm.reported

C19_Witness ==
    /\ winrm.op = "shutdown"
    /\ winrm.immediately
    /\ winrm.code # 0
    /\ winrm.kind = "raised"
    /\ winrm.ran = <<[command |-> "shutdown -s -t 0", shell |-> "cmd"]>>

\* The second call has run as far as the first.
SecondCallEnded ==
    replay.phase = "second" /\ calls = 2 /\ pc \in {"returned", "raised"}

C13_SameWrites ==
    (replay.phase = "second" /\ calls = 2) =>
        /\ Len(sent) <= Len(replay.first.sent)
        /\ sent = SubSeq(replay.first.sent, 1, Len(sent))
        /\ replay.next <= Len(replay.log) + 1

\* C13: a second call of the same method, on a fresh channel that behaves as
\* the channel of the first call did, ends as the first did (it returns, or
\* raises the same exception), after the same statements and the same writes
\* on the channel in the same order.
C13_SecondCallSameOutcome ==
    /\ C13_SameWrites
    /\ SecondCallEnded =>
          /\ pc = replay.first.pc
          /\ raised = replay.first.raised
          /\ sent = replay.first.sent
          /\ replay.next = Len(replay.log) + 1

C13_Witness ==
    /\ SecondCallEnded
    /\ pc = "returned"
    /\ sent = <<CommandLine(command), PasswordLine>>
    /\ Len(replay.log) >= 4
    /\ \E i \in DOMAIN replay.log : i > 2 /\ replay.log[i].emitted # <<>>

\* C21: the password is sent only in answer to a prompt of the command: the
\* Phase 1 recv on whose match the password line is written does not match on
\* bytes that were pending on the channel before the command line was sent
\* (a banner that contains "password").
C21_PasswordAnswersCommandPrompt ==
    ~origin.banner

\* C22: "Incorrect sudo password!" is raised only on output emitted after the
\* password line was written: the Phase 2 recv on whose match it is raised
\* does not match on bytes that were emitted before the password and were
\* still unread when Phase 2 began.
C22_RejectionAnswersPassword ==
    ~origin.leftover

\* C23: the outcome does not depend on how the output is cut into reads.  In
\* Phase 1, once the bytes the recv calls returned make up, read in one
\* piece, text the test matches, the password line has been written; in Phase
\* 2, once they do, "Incorrect sudo password!" has been raised (a failure of
\* the channel aside).
C23_SplitReadsSameOutcome ==
    /\ PromptMatch(origin.heard1) => Len(sent) = 2
    /\ (ReturnPromptMatch(origin.heard2) /\ ~obs.fault) =>
          (pc = "raised" /\ raised = PasswordRejectedError)

====
